---- MODULE Spec2Model ----
(***************************************************************************)
(* A model of the libopenreil wrapper (src/src/lib.rs): the Reil session   *)
(* that owns an engine handle, the two translate entry points that forward *)
(* a byte buffer to the engine, and the ReilInst / ReilArg accessors over  *)
(* the engine's instruction and argument records.                          *)
(*                                                                         *)
(* Number representation.  A u64 is a sequence of eight bytes, most        *)
(* significant first, so that the 64-bit shift and or of address() are     *)
(* computed at their real width.  A usize buffer length is a pair          *)
(* [hi, lo] standing for hi * 2^32 + lo with lo < 2^31.                    *)
(***************************************************************************)
EXTENDS Integers, Sequences, FiniteSets, TLC

VARIABLES
    reil,       \* construction attempt -> [st, reil_handle]: the Reil value, if any
    engine,     \* engine handle -> "free" | "open" | "closed"
    released,   \* construction attempt -> number of reil_close calls made for it
    call,       \* the translate / translate_instruction call in progress or last returned
    inst,       \* the reil_inst_t the ReilInst accessors are applied to
    arg,        \* the reil_arg_t the ReilArg accessors are applied to
    ret         \* the accessor last applied and what it returned

vars == <<reil, engine, released, call, inst, arg, ret>>

---------------------------------------------------------------------------
(* Bounds of the model *)

MaxSessions == 2    \* construction attempts
MaxInsns == 2       \* native instructions spelled out at the head of a buffer
MaxInum == 256      \* largest REIL index (inum) the engine produces
NameCap == 4        \* capacity of the name buffer of an argument

(* Widths fixed by the program's types *)

U64Bytes == 8       \* fn address(&self) -> u64
ByteMod == 256      \* self.inum as u8, b as u8

---------------------------------------------------------------------------
(* Option<T>: None is the empty set, Some(v) the singleton *)

None == {}
Some(v) == {v}

---------------------------------------------------------------------------
(* 64-bit words *)

RECURSIVE Digit(_, _)
Digit(n, k) == IF k = 0 THEN n % ByteMod ELSE Digit(n \div ByteMod, k - 1)

\* the zero extension of a small natural number to u64 (x as u64)
U64FromNat(n) == [i \in 1..U64Bytes |-> Digit(n, U64Bytes - i)]

RECURSIVE BitOr(_, _)
BitOr(a, b) ==
    IF a = 0 THEN b
    ELSE IF b = 0 THEN a
    ELSE (IF a % 2 = 1 \/ b % 2 = 1 THEN 1 ELSE 0) + 2 * BitOr(a \div 2, b \div 2)

\* x << 8 on u64: the top byte is shifted out
Shl8(x) == [i \in 1..U64Bytes |-> IF i < U64Bytes THEN x[i + 1] ELSE 0]

\* x | y on u64
Or64(x, y) == [i \in 1..U64Bytes |-> BitOr(x[i], y[i])]

---------------------------------------------------------------------------
(* ReilInst for reil_inst_t *)

ArgTypes == {"A_NONE", "A_REG", "A_TEMP", "A_CONST", "A_LOC"}

raw_address(i) == i.raw_info.addr

reil_offset_wide(i) == i.inum
reil_offset(i) == i.inum % ByteMod

address_noshift(i) == Or64(raw_address(i), U64FromNat(reil_offset(i)))
address(i) ==
    LET raw_addr == Shl8(raw_address(i))
        off == U64FromNat(reil_offset(i))
    IN  Or64(raw_addr, off)

first_operand(i) == IF i.a.type_ = "A_NONE" THEN None ELSE Some(i.a)

second_operand_first(i) == IF i.a.type_ = "A_NONE" THEN None ELSE Some(i.a)
second_operand(i) == IF i.b.type_ = "A_NONE" THEN None ELSE Some(i.b)

third_operand(i) == IF i.c.type_ = "A_NONE" THEN None ELSE Some(i.c)

---------------------------------------------------------------------------
(* ReilArg for reil_arg_t *)

arg_type(x) == x.type_

val_nonconst(x) == IF arg_type(x) = "A_NONE" THEN None ELSE Some(x.val)
val(x) == IF arg_type(x) \in {"A_CONST", "A_LOC"} THEN Some(x.val) ELSE None

\* b as u8 on a c_char
AsU8(b) == b % ByteMod

\* iter().take_while(|&b| b as u8 != 0): the longest prefix without a zero byte
RECURSIVE TakeWhileNonZero(_)
TakeWhileNonZero(s) ==
    IF s = <<>> \/ AsU8(Head(s)) = 0 THEN <<>>
    ELSE <<Head(s)>> \o TakeWhileNonZero(Tail(s))

MapU8(s) == [k \in 1..Len(s) |-> AsU8(s[k])]

Cont(b) == b >= 128 /\ b <= 191

\* String::from_utf8(..).is_ok(): the bytes are well-formed UTF-8
RECURSIVE Utf8Valid(_)
Utf8Valid(s) ==
    IF s = <<>> THEN TRUE
    ELSE LET b == s[1]
             n == Len(s)
         IN  IF b <= 127 THEN Utf8Valid(Tail(s))
             ELSE IF b >= 194 /\ b <= 223
                  THEN n >= 2 /\ Cont(s[2]) /\ Utf8Valid(SubSeq(s, 3, n))
             ELSE IF b >= 224 /\ b <= 239
                  THEN /\ n >= 3
                       /\ Cont(s[2]) /\ Cont(s[3])
                       /\ (b = 224 => s[2] >= 160)
                       /\ (b = 237 => s[2] <= 159)
                       /\ Utf8Valid(SubSeq(s, 4, n))
             ELSE IF b >= 240 /\ b <= 244
                  THEN /\ n >= 4
                       /\ Cont(s[2]) /\ Cont(s[3]) /\ Cont(s[4])
                       /\ (b = 240 => s[2] >= 144)
                       /\ (b = 244 => s[2] <= 143)
                       /\ Utf8Valid(SubSeq(s, 5, n))
             ELSE FALSE

name_unfiltered(x) ==
    LET chars == MapU8(TakeWhileNonZero(x.name))
    IN  IF Utf8Valid(chars) THEN Some(chars) ELSE None
name(x) ==
    IF arg_type(x) = "A_NONE" THEN None
    ELSE LET chars == MapU8(TakeWhileNonZero(x.name))
         IN  IF Utf8Valid(chars) THEN Some(chars) ELSE None

---------------------------------------------------------------------------
(* The records the accessors are applied to *)

\* c_char values of a name buffer: NUL, 'a', 'e', 'x', and the bytes C2, A9
\* as a signed char holds them
CharVals == {0, 97, 101, 120, -62, -87}

NoName == [k \in 1..NameCap |-> 0]
NameOf(s) == [k \in 1..NameCap |-> IF k <= Len(s) THEN s[k] ELSE 0]

NoArg == [type_ |-> "A_NONE", size |-> "U1", val |-> 0, name |-> NoName]

\* one argument of every type, and a NONE slot that still carries a value
\* and a name
OperandArgs ==
    [type_ : ArgTypes, size : {"U32"}, val : {42}, name : {NameOf(<<101, 97, 120>>)}]
        \cup {NoArg}

AddrByteVals == {0, 1, 255}
InumVals == {0, 1, ByteMod - 1, ByteMod, MaxInum}

NoInst ==
    [raw_info |-> [addr |-> U64FromNat(0)], inum |-> 0, op |-> "I_NONE",
     a |-> NoArg, b |-> NoArg, c |-> NoArg]

\* instructions that differ in address and index
AddrInsts ==
    {[NoInst EXCEPT !.raw_info.addr = r, !.inum = n] :
        r \in [1..U64Bytes -> AddrByteVals], n \in InumVals}

\* instructions that differ in their operand slots
OperandInsts ==
    {[NoInst EXCEPT !.a = x, !.b = y, !.c = z] :
        x \in OperandArgs, y \in OperandArgs, z \in OperandArgs}

ArgInputs ==
    [type_ : ArgTypes, size : {"U32"}, val : {0, 42},
     name : [1..NameCap -> CharVals]]

NoRet == [fn |-> "none", value |-> None]

---------------------------------------------------------------------------
(* The handler applies an accessor to the instruction it was handed *)

CallAddress ==
    /\ ret' = [fn |-> "address", value |-> address(inst)]
    /\ UNCHANGED <<reil, engine, released, call, inst, arg>>

CallReilOffset ==
    /\ ret' = [fn |-> "reil_offset", value |-> reil_offset(inst)]
    /\ UNCHANGED <<reil, engine, released, call, inst, arg>>

CallRawAddress ==
    /\ ret' = [fn |-> "raw_address", value |-> raw_address(inst)]
    /\ UNCHANGED <<reil, engine, released, call, inst, arg>>

CallFirstOperand ==
    /\ ret' = [fn |-> "first_operand", value |-> first_operand(inst)]
    /\ UNCHANGED <<reil, engine, released, call, inst, arg>>

CallSecondOperand ==
    /\ ret' = [fn |-> "second_operand", value |-> second_operand(inst)]
    /\ UNCHANGED <<reil, engine, released, call, inst, arg>>

CallThirdOperand ==
    /\ ret' = [fn |-> "third_operand", value |-> third_operand(inst)]
    /\ UNCHANGED <<reil, engine, released, call, inst, arg>>

CallVal ==
    /\ ret' = [fn |-> "val", value |-> val(arg)]
    /\ UNCHANGED <<reil, engine, released, call, inst, arg>>

CallName ==
    /\ ret' = [fn |-> "name", value |-> name(arg)]
    /\ UNCHANGED <<reil, engine, released, call, inst, arg>>

---------------------------------------------------------------------------
(* Sessions, engine handles and buffers *)

NULL == 0                       \* reil.is_null()
Slots == 1..MaxSessions
Handles == 1..MaxSessions

RECURSIVE SeqsUpTo(_, _)
SeqsUpTo(S, n) ==
    IF n = 0 THEN {<<>>}
    ELSE LET shorter == SeqsUpTo(S, n - 1)
         IN  shorter \cup {Append(q, x) : q \in {r \in shorter : Len(r) = n - 1}, x \in S}

\* a native instruction as the engine decodes it: its size in bytes and the
\* number of REIL instructions it expands to
InsnKinds == {[size |-> 1, exp |-> 1], [size |-> 3, exp |-> 2]}
LongInsn == [size |-> 2, exp |-> MaxInum + 1]
TailInsn == [size |-> 1, exp |-> 1]

\* data: &mut [u8].  The buffer holds the encodings of insns, followed by
\* wraps * 2^32 further one-byte instructions (TailInsn).
WrapVals == {0, 1}
Buffers == [insns : SeqsUpTo(InsnKinds, MaxInsns), wraps : WrapVals]
StreamBuffers == [insns : SeqsUpTo(InsnKinds \cup {LongInsn}, MaxInsns), wraps : {0}]

\* start_address: u32
StartAddrs == {4096}
StreamAddrs == {0, 4096}

RECURSIVE SumSize(_)
SumSize(q) == IF q = <<>> THEN 0 ELSE Head(q).size + SumSize(Tail(q))

RECURSIVE SumExp(_)
SumExp(q) == IF q = <<>> THEN 0 ELSE Head(q).exp + SumExp(Tail(q))

\* data.len(), a usize: hi * 2^32 + lo
DataLen(d) == [hi |-> d.wraps, lo |-> SumSize(d.insns)]

\* n as libc::c_int: the low 32 bits of the usize (lo < 2^31, so not negative)
CInt(n) == n.lo

IdleCall ==
    [pc |-> "idle", fn |-> "none", s |-> 1, handle |-> NULL, addr |-> 0,
     data |-> [insns |-> <<>>, wraps |-> 0], len |-> 0,
     p |-> 1, off |-> 0, inum |-> 0,
     count |-> 0, first |-> None, prev |-> None, addrs |-> {}]

\* the request translate() hands to the engine
translate(s, data, start_address) ==
    [IdleCall EXCEPT !.pc = "running", !.fn = "reil_translate", !.s = s,
                     !.handle = reil[s].reil_handle, !.addr = start_address,
                     !.data = data, !.len = CInt(DataLen(data))]

\* the request translate_instruction() hands to the engine
translate_instruction(s, data, start_address) ==
    [IdleCall EXCEPT !.pc = "running", !.fn = "reil_translate_insn", !.s = s,
                     !.handle = reil[s].reil_handle, !.addr = start_address,
                     !.data = data, !.len = CInt(DataLen(data))]

\* translate and translate_instruction return when the engine returns: the
\* caller runs nothing else while a call is in progress
CallerBlocked_never == FALSE
CallerBlocked == call.pc = "running"

\* Reil::new: None on a null handle, otherwise the session holding it
new_unchecked(h) == [st |-> "Active", reil_handle |-> h]
new(h) ==
    IF h = NULL THEN [st |-> "Absent", reil_handle |-> NULL]
    ELSE [st |-> "Active", reil_handle |-> h]

\* the engine's reil_init: null, or a handle that is not in use
reil_init ==
    LET free == {x \in Handles : engine[x].st = "free"}
    IN  {NULL} \cup {x \in free : \A y \in free : x <= y}

\* the engine's reil_close
reil_close(e, h) ==
    IF h = NULL THEN e
    ELSE [e EXCEPT ![h] = [st |-> "closed", closes |-> @.closes + 1]]

\* Drop for Reil
drop_leak(s) == UNCHANGED <<engine, released>>
drop(s) ==
    /\ engine' = reil_close(engine, reil[s].reil_handle)
    /\ released' = [released EXCEPT ![s] = @ + 1]

---------------------------------------------------------------------------
(* The engine's side of a call *)

\* the native instruction the engine is expanding
HasNext(c) ==
    /\ c.off < c.len
    /\ c.p <= Len(c.data.insns)
    /\ (c.fn = "reil_translate_insn" => c.p = 1)

\* the instruction record the engine hands to the handler
Emitted(c) ==
    [NoInst EXCEPT !.raw_info.addr = U64FromNat(c.addr + c.off), !.inum = c.inum]

\* the call after the handler has been invoked on Emitted(c)
Advance(c) ==
    LET k == c.data.insns[c.p]
        last == c.inum + 1 = k.exp
    IN  [c EXCEPT !.count = @ + 1,
                  !.first = IF c.count = 0 THEN Some(Emitted(c)) ELSE @,
                  !.prev = IF c.count = 0 THEN None ELSE Some(inst),
                  !.addrs = @ \cup {c.addr + c.off},
                  !.inum = IF last THEN 0 ELSE c.inum + 1,
                  !.p = IF last THEN c.p + 1 ELSE c.p,
                  !.off = IF last THEN c.off + k.size ELSE c.off]

---------------------------------------------------------------------------
(* Actions *)

New(s) ==
    /\ ~CallerBlocked
    /\ reil[s].st = "Uninit"
    /\ \E h \in reil_init :
          /\ engine' = IF h = NULL THEN engine
                        ELSE [engine EXCEPT ![h].st = "open"]
          /\ reil' = [reil EXCEPT ![s] = new(h)]
    /\ UNCHANGED <<released, call, inst, arg, ret>>

Translate(s, data, start_address) ==
    /\ ~CallerBlocked
    /\ reil[s].st = "Active"
    /\ call' = translate(s, data, start_address)
    /\ UNCHANGED <<reil, engine, released, inst, arg, ret>>

TranslateInstruction(s, data, start_address) ==
    /\ ~CallerBlocked
    /\ reil[s].st = "Active"
    /\ call' = translate_instruction(s, data, start_address)
    /\ UNCHANGED <<reil, engine, released, inst, arg, ret>>

EngineEmit ==
    /\ call.pc = "running"
    /\ HasNext(call)
    /\ inst' = Emitted(call)
    /\ call' = Advance(call)
    /\ UNCHANGED <<reil, engine, released, arg, ret>>

EngineReturn ==
    /\ call.pc = "running"
    /\ ~HasNext(call)
    /\ call' = [call EXCEPT !.pc = "returned"]
    /\ UNCHANGED <<reil, engine, released, inst, arg, ret>>

Drop(s) ==
    /\ ~CallerBlocked
    /\ reil[s].st = "Active"
    /\ drop(s)
    /\ reil' = [reil EXCEPT ![s].st = "Closed"]
    /\ UNCHANGED <<call, inst, arg, ret>>

---------------------------------------------------------------------------
(* Specifications *)

InitSession ==
    /\ reil = [s \in Slots |-> [st |-> "Uninit", reil_handle |-> NULL]]
    /\ engine = [h \in Handles |-> [st |-> "free", closes |-> 0]]
    /\ released = [s \in Slots |-> 0]
    /\ call = IdleCall

\* sessions are constructed, used and dropped
Init ==
    /\ InitSession
    /\ inst = NoInst
    /\ arg = NoArg
    /\ ret = NoRet

Next ==
    \/ \E s \in Slots : New(s)
    \/ \E s \in Slots, d \in Buffers, a \in StartAddrs : Translate(s, d, a)
    \/ \E s \in Slots, d \in Buffers, a \in StartAddrs : TranslateInstruction(s, d, a)
    \/ EngineEmit
    \/ EngineReturn
    \/ \E s \in Slots : Drop(s)

Spec == Init /\ [][Next]_vars

\* one session streams buffers whose instructions have long expansions
NextStream ==
    \/ New(1)
    \/ \E d \in StreamBuffers, a \in StreamAddrs : Translate(1, d, a)
    \/ \E d \in StreamBuffers, a \in StreamAddrs : TranslateInstruction(1, d, a)
    \/ EngineEmit
    \/ EngineReturn
    \/ Drop(1)

SpecStream == Init /\ [][NextStream]_vars

\* the ReilInst accessors applied to an instruction record
InitInst ==
    /\ InitSession
    /\ inst \in AddrInsts \cup OperandInsts
    /\ arg = NoArg
    /\ ret = NoRet

NextInst ==
    \/ CallAddress
    \/ CallReilOffset
    \/ CallRawAddress
    \/ CallFirstOperand
    \/ CallSecondOperand
    \/ CallThirdOperand

SpecInst == InitInst /\ [][NextInst]_vars

\* the ReilArg accessors applied to an argument record
InitArg ==
    /\ InitSession
    /\ inst = NoInst
    /\ arg \in ArgInputs
    /\ ret = NoRet

NextArg ==
    \/ CallVal
    \/ CallName

SpecArg == InitArg /\ [][NextArg]_vars

---------------------------------------------------------------------------
(* Claims *)

Min(S) == CHOOSE x \in S : \A y \in S : x <= y

\* the high bits of a composite address: x >> 8 on u64
Shr8(x) == [i \in 1..U64Bytes |-> IF i = 1 THEN 0 ELSE x[i - 1]]

\* the low 8 bits of a composite address
LowByte(x) == x[U64Bytes]

\* x < y on u64
Less64(x, y) ==
    \E i \in 1..U64Bytes : x[i] < y[i] /\ \A j \in 1..(i - 1) : x[j] = y[j]

\* C1: every successfully constructed session releases its engine handle
\* exactly once, when it is destroyed: a destroyed session has made one
\* reil_close call and its handle is closed, a live session has made none
\* and its handle is open, and no handle is ever closed more than once.
C1_ReleasedExactlyOnce ==
    /\ \A s \in Slots :
          /\ released[s] <= 1
          /\ reil[s].st = "Closed" =>
                /\ released[s] = 1
                /\ engine[reil[s].reil_handle].st = "closed"
          /\ reil[s].st = "Active" =>
                /\ released[s] = 0
                /\ engine[reil[s].reil_handle].st = "open"
    /\ \A h \in Handles :
          /\ engine[h].closes <= 1
          /\ engine[h].st = "closed" =>
                \E s \in Slots : reil[s].st = "Closed" /\ reil[s].reil_handle = h

\* a session was destroyed after a call on it had invoked the handler
C1_Witness ==
    /\ call.pc = "returned"
    /\ call.count >= 1
    /\ reil[call.s].st = "Closed"

\* C2: when reil_init returns null, Reil::new returns None: the attempt holds
\* no handle and makes no reil_close call; every session that exists holds a
\* non-null, open handle, and every open handle is held by a live session.
C2_FailedNewHoldsNothing ==
    /\ \A s \in Slots :
          /\ reil[s].st \in {"Uninit", "Absent"} =>
                reil[s].reil_handle = NULL /\ released[s] = 0
          /\ reil[s].st \in {"Active", "Closed"} => reil[s].reil_handle # NULL
          /\ reil[s].st = "Active" => engine[reil[s].reil_handle].st = "open"
    /\ \A h \in Handles :
          engine[h].st = "open" =>
              \E s \in Slots : reil[s].st = "Active" /\ reil[s].reil_handle = h

\* one construction failed and another session was then used and destroyed
C2_Witness ==
    \E s, t \in Slots : reil[s].st = "Absent" /\ reil[t].st = "Closed"

\* C3 as stated: for every 64-bit raw address r and offset o, address() is
\* (r << 8) | o, its low 8 bits are o and its high bits are r.
C3_Lossless ==
    ret.fn = "address" =>
        LET r == raw_address(inst)
            o == reil_offset(inst)
        IN  /\ o \in 0..(ByteMod - 1)
            /\ \A i \in 1..(U64Bytes - 1) : ret.value[i] = r[i + 1]
            /\ LowByte(ret.value) = o
            /\ Shr8(ret.value) = r

\* C3 as amended: address() is (r << 8) | o at 64 bits, its low 8 bits are
\* o, and its high bits are r with the top byte cleared: they are r exactly
\* when r < 2^56.
C3_LosslessBelow2p56 ==
    ret.fn = "address" =>
        LET r == raw_address(inst)
            o == reil_offset(inst)
        IN  /\ o \in 0..(ByteMod - 1)
            /\ \A i \in 1..(U64Bytes - 1) : ret.value[i] = r[i + 1]
            /\ LowByte(ret.value) = o
            /\ Shr8(ret.value) = [r EXCEPT ![1] = 0]
            /\ (r[1] = 0 => Shr8(ret.value) = r)

\* address() was applied to an instruction whose raw address is below 2^56
\* and fills the 56 bits, at index 255
C3_Witness ==
    /\ ret.fn = "address"
    /\ raw_address(inst)[1] = 0
    /\ \A i \in 2..U64Bytes : raw_address(inst)[i] = 255
    /\ reil_offset(inst) = 255

\* C4 as stated: when translate returns, the handler has been invoked once
\* for every REIL instruction of every native instruction in the buffer.
C4_HandlerCount ==
    (call.pc = "returned" /\ call.fn = "reil_translate") =>
        [hi |-> 0, lo |-> call.count] =
            [hi |-> call.data.wraps * TailInsn.exp, lo |-> SumExp(call.data.insns)]

\* C5 as stated: when translate_instruction returns from a buffer of two or
\* more native instructions, the handler has been invoked for the expansion
\* of the first one, one or more times, always with its native address.
C5_FirstInsnOnly ==
    (/\ call.pc = "returned"
     /\ call.fn = "reil_translate_insn"
     /\ (Len(call.data.insns) >= 2 \/ call.data.wraps >= 1)) =>
        LET k == IF call.data.insns # <<>> THEN call.data.insns[1] ELSE TailInsn
        IN  /\ call.count = k.exp
            /\ call.count >= 1
            /\ call.addrs = {call.addr}

\* C6: each operand accessor returns None exactly when its own slot is typed
\* A_NONE and otherwise the argument of that slot.
C6_OperandPresence ==
    /\ ret.fn = "first_operand" =>
          /\ ret.value = {} <=> inst.a.type_ = "A_NONE"
          /\ ret.value # {} => ret.value = {inst.a}
    /\ ret.fn = "second_operand" =>
          /\ ret.value = {} <=> inst.b.type_ = "A_NONE"
          /\ ret.value # {} => ret.value = {inst.b}
    /\ ret.fn = "third_operand" =>
          /\ ret.value = {} <=> inst.c.type_ = "A_NONE"
          /\ ret.value # {} => ret.value = {inst.c}

\* second_operand() was applied to an instruction whose second slot alone
\* is in use
C6_Witness ==
    /\ ret.fn = "second_operand"
    /\ inst.a.type_ = "A_NONE"
    /\ inst.b.type_ = "A_REG"
    /\ inst.c.type_ = "A_NONE"

\* C7: val() is present exactly for the types A_CONST and A_LOC, and then
\* it is the stored value.
C7_ValPresence ==
    ret.fn = "val" =>
        /\ ret.value # {} <=> arg.type_ \in {"A_CONST", "A_LOC"}
        /\ ret.value # {} => ret.value = {arg.val}
        /\ (arg.type_ = "A_CONST" /\ arg.val = 42) => ret.value = {42}

\* val() was applied to a CONST argument with value 42
C7_Witness ==
    /\ ret.fn = "val"
    /\ arg.type_ = "A_CONST"
    /\ arg.val = 42

\* C8: name() is None for type A_NONE whatever the buffer holds; otherwise
\* it is the bytes before the first zero byte when they are valid text, and
\* None when they are not.
C8_NameDecoding ==
    ret.fn = "name" =>
        LET bytes == [k \in 1..NameCap |-> IF arg.name[k] < 0 THEN arg.name[k] + ByteMod
                                            ELSE arg.name[k]]
            zeros == {k \in 1..NameCap : bytes[k] = 0}
            n == IF zeros = {} THEN NameCap ELSE Min(zeros) - 1
            text == SubSeq(bytes, 1, n)
        IN  /\ arg.type_ = "A_NONE" => ret.value = {}
            /\ (arg.type_ # "A_NONE" /\ Utf8Valid(text)) => ret.value = {text}
            /\ (arg.type_ # "A_NONE" /\ ~Utf8Valid(text)) => ret.value = {}
            /\ (arg.type_ # "A_NONE" /\ arg.name = NameOf(<<101, 97, 120>>)) =>
                   ret.value = {<<101, 97, 120>>}
            /\ (arg.type_ # "A_NONE" /\ arg.name = NoName) => ret.value = {<<>>}

\* name() was applied to a register argument named "eax"
C8_Witness ==
    /\ ret.fn = "name"
    /\ arg.type_ = "A_REG"
    /\ arg.name = NameOf(<<101, 97, 120>>)

C10_Step ==
    /\ call'.count > call.count =>
          /\ call.pc = "running" /\ call'.pc = "running"
          /\ reil[call.s].st = "Active"
          /\ reil[call.s].reil_handle = call.handle
          /\ reil' = reil
    /\ (call.pc = "running" /\ call'.pc # "running") =>
          /\ call'.pc = "returned"
          /\ ~HasNext(call)
          /\ call'.count = call.count
          /\ reil' = reil
          /\ reil[call.s].st = "Active"
          /\ reil[call.s].reil_handle = call.handle
    /\ \A s \in Slots : reil[s].st = "Closed" => reil'[s] = reil[s]

\* C10: every step of every behaviour is such a step.
C10_HandlerOnlyInCall == [][C10_Step]_vars

\* a call that invoked the handler twice has returned and its session is
\* still Active
C10_Witness ==
    /\ call.pc = "returned"
    /\ call.count >= 2
    /\ reil[call.s].st = "Active"

====
